---------------------------- MODULE Spec2Model ----------------------------
(***************************************************************************)
(* Model of the Asian-option pricing kernel (utils.cpp,                    *)
(* geometric_asian.cpp, arithmetic_bounds.cpp).                            *)
(*                                                                         *)
(* A C++ double is modelled as an exact rational <<num, den>> in lowest    *)
(* terms with den > 0, extended with the IEEE-754 special values a         *)
(* division by zero produces: <<1,0>> is +inf, <<-1,0>> is -inf and        *)
(* <<0,0>> is NaN.  Rounding of finite results is not modelled, with two   *)
(* exceptions that have no rational value: std::exp is a rational          *)
(* approximant (Exp) and the log-space geometric mean is the root of the   *)
(* product rounded down to a binary grid (geometric_mean).                 *)
(***************************************************************************)
EXTENDS Integers, Sequences, FiniteSets

\* ------------------------------------------------------------- bounds
\* Largest number of time steps n a call is made with.
MaxN == 2
\* Largest n of a call with a nonzero impact coefficient lambda.
MaxImpactN == 1
\* The geometric mean is rounded down to a multiple of 2^(-GridBits).
GridBits == 3

\* ---------------------------------------------------- double arithmetic
RECURSIVE GCD(_, _)
GCD(a, b) == IF b = 0 THEN a ELSE GCD(b, a % b)

Abs(a) == IF a < 0 THEN -a ELSE a

\* The double with value n/d (d # 0), in lowest terms.
Rat(n, d) ==
    LET g == GCD(Abs(n), Abs(d))
        s == IF d < 0 THEN -1 ELSE 1
    IN  <<s * (n \div g), s * (d \div g)>>

NaN == <<0, 0>>
PosInf == <<1, 0>>
NegInf == <<-1, 0>>
Zero == <<0, 1>>
One == <<1, 1>>

IsNaN(x) == x = NaN
IsFinite(x) == x[2] > 0

\* x + y; a NaN operand gives NaN.
Add(x, y) ==
    IF IsNaN(x) \/ IsNaN(y) THEN NaN
    ELSE LET g == GCD(x[2], y[2])
         IN  Rat(x[1] * (y[2] \div g) + y[1] * (x[2] \div g),
                 (x[2] \div g) * y[2])

Neg(x) == <<-x[1], x[2]>>

Sub(x, y) == Add(x, Neg(y))

\* x * y, cancelling across the factors first; a NaN operand gives NaN.
Mul(x, y) ==
    IF IsNaN(x) \/ IsNaN(y) THEN NaN
    ELSE LET g1 == GCD(Abs(x[1]), y[2])
             g2 == GCD(Abs(y[1]), x[2])
         IN  Rat((x[1] \div g1) * (y[1] \div g2),
                 (x[2] \div g2) * (y[2] \div g1))

\* x / y with IEEE-754 division by zero: a nonzero x over 0 is an infinity
\* with the sign of x, and 0 / 0 is NaN.
Div(x, y) ==
    IF IsNaN(x) \/ IsNaN(y) THEN NaN
    ELSE IF y[1] = 0
         THEN (IF x[1] > 0 THEN PosInf ELSE IF x[1] < 0 THEN NegInf ELSE NaN)
         ELSE Mul(x, Rat(y[2], y[1]))

\* x < y; false when an operand is NaN, as every IEEE comparison is.
Lt(x, y) ==
    IF x[2] = 0 /\ y[2] = 0
    THEN ~IsNaN(x) /\ ~IsNaN(y) /\ x[1] < y[1]
    ELSE LET g == GCD(x[2], y[2])
         IN  x[1] * (y[2] \div g) < y[1] * (x[2] \div g)

Leq(x, y) == ~IsNaN(x) /\ ~IsNaN(y) /\ ~Lt(y, x)

\* std::max(a, b): (a < b) ? b : a
Max(a, b) == IF Lt(a, b) THEN b ELSE a

\* std::pow(x, k) for an integer k; pow(x, 0) is 1 for every x, NaN included.
RECURSIVE Pow(_, _)
Pow(x, k) ==
    IF k = 0 THEN One
    ELSE IF k < 0 THEN Div(One, Pow(x, -k))
    ELSE Mul(x, Pow(x, k - 1))

\* std::exp(x): the first-order Taylor polynomial 1 + x for x >= 0 (a lower
\* bound of e^x) and its reciprocal for x < 0.  Exact at 0, positive,
\* strictly increasing, and Exp(-x) * Exp(x) = 1.
ExpPoly(x) == Add(One, x)

Exp(x) == IF x[1] >= 0 THEN ExpPoly(x) ELSE Div(One, ExpPoly(Neg(x)))

RECURSIVE IntPow(_, _)
IntPow(b, k) == IF k = 0 THEN 1 ELSE b * IntPow(b, k - 1)


\* ------------------------------------------------------------ utils.cpp
\* compute_effective_factors with p derived from the unadjusted d.
compute_effective_factors_raw_d(r, u, d, lambda, v_u, v_d) ==
    LET u_tilde == Mul(u, Exp(Mul(lambda, v_u)))
        d_tilde == Mul(d, Exp(Mul(Neg(lambda), v_d)))
        p_eff == Div(Sub(r, d), Sub(u_tilde, d_tilde))
    IN  [ok |-> ~(Lt(p_eff, Zero) \/ Lt(One, p_eff)),
         u_tilde |-> u_tilde, d_tilde |-> d_tilde, p |-> p_eff]

\* compute_effective_factors with the upper half of the range check missing.
compute_effective_factors_no_upper_check(r, u, d, lambda, v_u, v_d) ==
    LET u_tilde == Mul(u, Exp(Mul(lambda, v_u)))
        d_tilde == Mul(d, Exp(Mul(Neg(lambda), v_d)))
        p_eff == Div(Sub(r, d_tilde), Sub(u_tilde, d_tilde))
    IN  [ok |-> ~Lt(p_eff, Zero),
         u_tilde |-> u_tilde, d_tilde |-> d_tilde, p |-> p_eff]

\* compute_effective_factors with the range check written as
\* !(p_eff >= 0 && p_eff <= 1), which NaN fails.
compute_effective_factors_negated_check(r, u, d, lambda, v_u, v_d) ==
    LET u_tilde == Mul(u, Exp(Mul(lambda, v_u)))
        d_tilde == Mul(d, Exp(Mul(Neg(lambda), v_d)))
        p_eff == Div(Sub(r, d_tilde), Sub(u_tilde, d_tilde))
    IN  [ok |-> Leq(Zero, p_eff) /\ Leq(p_eff, One),
         u_tilde |-> u_tilde, d_tilde |-> d_tilde, p |-> p_eff]

\* compute_effective_factors: the adjusted factors and the risk-neutral
\* probability; ok is FALSE where the code calls Rcpp::stop.
compute_effective_factors(r, u, d, lambda, v_u, v_d) ==
    LET u_tilde == Mul(u, Exp(Mul(lambda, v_u)))
        d_tilde == Mul(d, Exp(Mul(Neg(lambda), v_d)))
        p_eff == Div(Sub(r, d_tilde), Sub(u_tilde, d_tilde))
    IN  [ok |-> ~(Lt(p_eff, Zero) \/ Lt(One, p_eff)),
         u_tilde |-> u_tilde, d_tilde |-> d_tilde, p |-> p_eff]

\* compute_adjusted_factors, called by price_geometric_asian_cpp: the same
\* derivation with the result fields named u_tilde, d_tilde, p_adj.
compute_adjusted_factors(r, u, d, lambda, v_u, v_d) ==
    LET u_tilde == Mul(u, Exp(Mul(lambda, v_u)))
        d_tilde == Mul(d, Exp(Mul(Neg(lambda), v_d)))
        p_adj == Div(Sub(r, d_tilde), Sub(u_tilde, d_tilde))
    IN  [ok |-> ~(Lt(p_adj, Zero) \/ Lt(One, p_adj)),
         u_tilde |-> u_tilde, d_tilde |-> d_tilde, p |-> p_adj]

RECURSIVE Product(_, _)
Product(prices, i) ==
    IF i > Len(prices) THEN One ELSE Mul(prices[i], Product(prices, i + 1))

RECURSIVE Sum(_, _)
Sum(prices, i) ==
    IF i > Len(prices) THEN Zero ELSE Add(prices[i], Sum(prices, i + 1))

\* floor(x * 2^(GridBits * k)) for a double x = a/b > 0, one grid digit at
\* a time: st = <<floor so far, remainder>>.
RECURSIVE FloorScaled(_, _, _)
FloorScaled(b, k, st) ==
    IF k = 0 THEN st[1]
    ELSE LET q == IntPow(2, GridBits)
         IN  FloorScaled(b, k - 1,
                 <<st[1] * q + ((st[2] * q) \div b), (st[2] * q) % b>>)

\* The largest m with (m + 1)^k > t >= m^k.
RECURSIVE RootSearch(_, _, _)
RootSearch(t, k, m) ==
    IF IntPow(m + 1, k) <= t THEN RootSearch(t, k, m + 1) ELSE m

\* exp(log(x) / k): the k-th root of x, rounded down to the grid: the
\* largest m / 2^GridBits whose k-th power is at most x.
RootFloor(x, k) ==
    Rat(RootSearch(FloorScaled(x[2], k, <<x[1] \div x[2], x[1] % x[2]>>), k, 0),
        IntPow(2, GridBits))

\* geometric_mean: exp(mean of the logs), the Len(prices)-th root of the
\* product; ok is FALSE where the code calls Rcpp::stop (an empty vector,
\* a price <= 0).
geometric_mean(prices) ==
    IF Len(prices) = 0 \/ \E i \in 1..Len(prices) : Leq(prices[i], Zero)
    THEN [ok |-> FALSE, v |-> Zero]
    ELSE [ok |-> TRUE, v |-> RootFloor(Product(prices, 1), Len(prices))]

\* arithmetic_mean: the sum over the size; ok is FALSE on an empty vector.
arithmetic_mean(prices) ==
    IF Len(prices) = 0
    THEN [ok |-> FALSE, v |-> Zero]
    ELSE [ok |-> TRUE, v |-> Div(Sum(prices, 1), Rat(Len(prices), 1))]

\* The loop of generate_price_path with the down branch counting an up move.
RECURSIVE PricePathLoop_downs_as_ups(_, _, _, _, _, _, _)
PricePathLoop_downs_as_ups(S0, path, u_tilde, d_tilde, i, counts, prices) ==
    IF i > Len(path) THEN prices
    ELSE LET n_ups == counts[1] + 1
             n_downs == counts[2]
             price == Mul(Mul(S0, Pow(u_tilde, n_ups)), Pow(d_tilde, n_downs))
         IN  PricePathLoop_downs_as_ups(S0, path, u_tilde, d_tilde, i + 1,
                           <<n_ups, n_downs>>, Append(prices, price))

\* The loop of generate_price_path from step i (1-based) on, with the
\* counters n_ups, n_downs and the prices filled so far.
RECURSIVE PricePathLoop(_, _, _, _, _, _, _)
PricePathLoop(S0, path, u_tilde, d_tilde, i, counts, prices) ==
    IF i > Len(path) THEN prices
    ELSE LET n_ups == IF path[i] = 1 THEN counts[1] + 1 ELSE counts[1]
             n_downs == IF path[i] = 1 THEN counts[2] ELSE counts[2] + 1
             price == Mul(Mul(S0, Pow(u_tilde, n_ups)), Pow(d_tilde, n_downs))
         IN  PricePathLoop(S0, path, u_tilde, d_tilde, i + 1,
                           <<n_ups, n_downs>>, Append(prices, price))

\* generate_price_path: prices[0] = S0, then one price per move.
generate_price_path(S0, path, u_tilde, d_tilde) ==
    PricePathLoop(S0, path, u_tilde, d_tilde, 1, <<0, 0>>, <<S0>>)

\* ---------------------------------------------------- geometric_asian.cpp
\* generate_all_paths_recursive without the reset to 0 before the second
\* recursive call.
RECURSIVE generate_all_paths_recursive_no_reset(_, _, _)
generate_all_paths_recursive_no_reset(n, current_step, st) ==
    IF current_step = n
    THEN [cp |-> st.cp, ap |-> Append(st.ap, st.cp)]
    ELSE LET up == generate_all_paths_recursive_no_reset(n, current_step + 1,
                       [cp |-> [st.cp EXCEPT ![current_step + 1] = 1],
                        ap |-> st.ap])
         IN  generate_all_paths_recursive_no_reset(n, current_step + 1,
                       [cp |-> up.cp, ap |-> up.ap])

\* generate_all_paths_recursive trying the down move before the up move.
RECURSIVE generate_all_paths_recursive_down_first(_, _, _)
generate_all_paths_recursive_down_first(n, current_step, st) ==
    IF current_step = n
    THEN [cp |-> st.cp, ap |-> Append(st.ap, st.cp)]
    ELSE LET down == generate_all_paths_recursive_down_first(n, current_step + 1,
                       [cp |-> [st.cp EXCEPT ![current_step + 1] = 0],
                        ap |-> st.ap])
         IN  generate_all_paths_recursive_down_first(n, current_step + 1,
                       [cp |-> [down.cp EXCEPT ![current_step + 1] = 1],
                        ap |-> down.ap])

\* generate_all_paths_recursive; st = [cp |-> current_path, ap |-> all_paths],
\* both passed by reference in the code, so the updated pair is returned.
RECURSIVE generate_all_paths_recursive(_, _, _)
generate_all_paths_recursive(n, current_step, st) ==
    IF current_step = n
    THEN [cp |-> st.cp, ap |-> Append(st.ap, st.cp)]
    ELSE LET up == generate_all_paths_recursive(n, current_step + 1,
                       [cp |-> [st.cp EXCEPT ![current_step + 1] = 1],
                        ap |-> st.ap])
         IN  generate_all_paths_recursive(n, current_step + 1,
                       [cp |-> [up.cp EXCEPT ![current_step + 1] = 0],
                        ap |-> up.ap])

\* generate_all_paths returning no path at all for n = 0.
generate_all_paths_no_trivial_path(n) ==
    IF n = 0 THEN <<>>
    ELSE generate_all_paths_recursive(n, 0,
             [cp |-> [i \in 1..n |-> 0], ap |-> <<>>]).ap

\* generate_all_paths: current_path(n) starts as n zeros.
generate_all_paths(n) ==
    generate_all_paths_recursive(n, 0,
        [cp |-> [i \in 1..n |-> 0], ap |-> <<>>]).ap

\* The count of up moves of a path (the n_ups loop of both pricers).
RECURSIVE CountUps(_, _)
CountUps(path, i) ==
    IF i > Len(path) THEN 0
    ELSE (IF path[i] = 1 THEN 1 ELSE 0) + CountUps(path, i + 1)

\* path_prob with the down moves counted as n instead of n - n_ups.
path_prob_all_downs(p, path, n) ==
    LET n_ups == CountUps(path, 1)
    IN  Mul(Pow(p, n_ups), Pow(Sub(One, p), n))

\* path_prob = pow(p, n_ups) * pow(1 - p, n - n_ups)
path_prob(p, path, n) ==
    LET n_ups == CountUps(path, 1)
    IN  Mul(Pow(p, n_ups), Pow(Sub(One, p), n - n_ups))


\* ------------------------------------------------------------ the state
\* input: the argument tuple (S0, K, r, u, d, lambda, v_u, v_d, n) both
\*        entry points are called with;
\* geo:   the frame of one call of price_geometric_asian_cpp;
\* arb:   the frame of one call of arithmetic_asian_bounds_cpp.
VARIABLES input, geo, arb

vars == <<input, geo, arb>>

\* The argument values the calls are made with.  They include tuples
\* outside the documented domain (u <= d, r outside [d_tilde, u_tilde]):
\* the entry points take any doubles.
S0Values == {Rat(1, 1), Rat(3, 2), Rat(4, 3)}
KValues == {Rat(1, 1), Rat(5, 4)}
RValues == {Rat(1, 1), Rat(5, 4), Rat(7, 4), Rat(2, 1)}
UDValues == {<<Rat(2, 1), Rat(1, 2)>>, <<Rat(3, 2), Rat(1, 2)>>,
             <<Rat(2, 1), Rat(3, 2)>>, <<Rat(2, 1), Rat(2, 1)>>}
LambdaValues == {Rat(0, 1), Rat(1, 1)}
VolumeValues == {Rat(0, 1), Rat(1, 1)}

AllInputs ==
    {[S0 |-> S0, K |-> K, r |-> r, u |-> ud[1], d |-> ud[2],
      lambda |-> lambda, v_u |-> v_u, v_d |-> v_d, n |-> n] :
        S0 \in S0Values, K \in KValues, r \in RValues, ud \in UDValues,
        lambda \in LambdaValues, v_u \in VolumeValues, v_d \in VolumeValues,
        n \in 0..MaxN}

Inputs == {in \in AllInputs : in.lambda = Zero \/ in.n <= MaxImpactN}

NoFactors == [ok |-> FALSE, u_tilde |-> Zero, d_tilde |-> Zero, p |-> Zero]

NoResult == [lower_bound |-> Zero, upper_bound |-> Zero, rho_star |-> Zero,
             EQ_G |-> Zero, V0_G |-> Zero]

Init ==
    /\ input \in Inputs
    /\ geo = [pc |-> "call", factors |-> NoFactors, all_paths |-> <<>>,
              i |-> 0, discount |-> Zero, option_value |-> Zero,
              path |-> <<>>, prices |-> <<>>, result |-> Zero]
    /\ arb = [pc |-> "call", factors |-> NoFactors, all_paths |-> <<>>,
              i |-> 0, discount |-> Zero, lower_bound |-> Zero,
              EQ_G |-> Zero, path |-> <<>>, prices |-> <<>>,
              result |-> NoResult]

\* ------------------------------------------ price_geometric_asian_cpp
\* Line 87: derive the factors; Rcpp::stop leaves the call with no value.
GeoFactors ==
    /\ geo.pc = "call"
    /\ LET f == compute_adjusted_factors(input.r, input.u, input.d,
                    input.lambda, input.v_u, input.v_d)
       IN  geo' = [geo EXCEPT !.pc = IF f.ok THEN "paths" ELSE "error",
                              !.factors = f]
    /\ UNCHANGED <<input, arb>>

\* Lines 90-96: enumerate the paths, set the discount and the accumulator.
GeoPaths ==
    /\ geo.pc = "paths"
    /\ geo' = [geo EXCEPT !.pc = "loop",
                          !.all_paths = generate_all_paths(input.n),
                          !.i = 1,
                          !.discount = Pow(input.r, -input.n),
                          !.option_value = Zero]
    /\ UNCHANGED <<input, arb>>

\* Lines 99-123: one iteration of the loop over all_paths.
GeoPath ==
    /\ geo.pc = "loop"
    /\ geo.i <= Len(geo.all_paths)
    /\ LET path == geo.all_paths[geo.i]
           prices == generate_price_path(input.S0, path,
                         geo.factors.u_tilde, geo.factors.d_tilde)
           G == geometric_mean(prices)
           payoff == Max(Zero, Sub(G.v, input.K))
           prob == path_prob(geo.factors.p, path, input.n)
       IN  geo' = IF G.ok
                  THEN [geo EXCEPT !.i = geo.i + 1,
                                   !.path = path,
                                   !.prices = prices,
                                   !.option_value =
                                       Add(geo.option_value, Mul(prob, payoff))]
                  ELSE [geo EXCEPT !.pc = "error"]
    /\ UNCHANGED <<input, arb>>

\* Lines 126-128: discount and return.
GeoReturn ==
    /\ geo.pc = "loop"
    /\ geo.i > Len(geo.all_paths)
    /\ geo' = [geo EXCEPT !.pc = "done",
                          !.option_value = Mul(geo.option_value, geo.discount),
                          !.result = Mul(geo.option_value, geo.discount)]
    /\ UNCHANGED <<input, arb>>

\* ------------------------------------------ arithmetic_asian_bounds_cpp
\* Line 48: derive the factors; Rcpp::stop leaves the call with no value.
ArbFactors ==
    /\ arb.pc = "call"
    /\ LET f == compute_effective_factors(input.r, input.u, input.d,
                    input.lambda, input.v_u, input.v_d)
       IN  arb' = [arb EXCEPT !.pc = IF f.ok THEN "paths" ELSE "error",
                              !.factors = f]
    /\ UNCHANGED <<input, geo>>

\* Lines 51-57: enumerate the paths, set the discount and the accumulators.
ArbPaths ==
    /\ arb.pc = "paths"
    /\ arb' = [arb EXCEPT !.pc = "loop",
                          !.all_paths = generate_all_paths(input.n),
                          !.i = 1,
                          !.discount = Pow(input.r, -input.n),
                          !.lower_bound = Zero,
                          !.EQ_G = Zero]
    /\ UNCHANGED <<input, geo>>

\* Lines 59-77: one iteration of the loop over all_paths.
ArbPath ==
    /\ arb.pc = "loop"
    /\ arb.i <= Len(arb.all_paths)
    /\ LET path == arb.all_paths[arb.i]
           prices == generate_price_path(input.S0, path,
                         arb.factors.u_tilde, arb.factors.d_tilde)
           G == geometric_mean(prices)
           payoff == Max(Zero, Sub(G.v, input.K))
           prob == path_prob(arb.factors.p, path, input.n)
       IN  arb' = IF G.ok
                  THEN [arb EXCEPT !.i = arb.i + 1,
                                   !.path = path,
                                   !.prices = prices,
                                   !.lower_bound =
                                       Add(arb.lower_bound, Mul(prob, payoff)),
                                   !.EQ_G = Add(arb.EQ_G, Mul(prob, G.v))]
                  ELSE [arb EXCEPT !.pc = "error"]
    /\ UNCHANGED <<input, geo>>

\* rho_star with the sum of the terminal factors in place of their difference.
rho_star_of_sum(u_tilde, d_tilde, n) ==
    LET u_n == Pow(u_tilde, n)
        d_n == Pow(d_tilde, n)
        spread == Div(Pow(Add(u_n, d_n), 2),
                      Mul(Mul(Rat(4, 1), u_n), d_n))
    IN  Exp(spread)

\* Lines 82-85: rho_star from the terminal factors.
rho_star_of(u_tilde, d_tilde, n) ==
    LET u_n == Pow(u_tilde, n)
        d_n == Pow(d_tilde, n)
        spread == Div(Pow(Sub(u_n, d_n), 2),
                      Mul(Mul(Rat(4, 1), u_n), d_n))
    IN  Exp(spread)

\* Lines 79-96: discount the lower bound, derive rho_star and the upper
\* bound, return the five-field record.
ArbReturn ==
    /\ arb.pc = "loop"
    /\ arb.i > Len(arb.all_paths)
    /\ LET lower_bound == Mul(arb.lower_bound, arb.discount)
           rho_star == rho_star_of(arb.factors.u_tilde, arb.factors.d_tilde,
                                   input.n)
           upper_bound ==
               Add(lower_bound,
                   Mul(Mul(arb.discount, Sub(rho_star, One)), arb.EQ_G))
       IN  arb' = [arb EXCEPT !.pc = "done",
                              !.lower_bound = lower_bound,
                              !.result = [lower_bound |-> lower_bound,
                                          upper_bound |-> upper_bound,
                                          rho_star |-> rho_star,
                                          EQ_G |-> arb.EQ_G,
                                          V0_G |-> lower_bound]]
    /\ UNCHANGED <<input, geo>>

Next ==
    \/ GeoFactors
    \/ GeoPaths
    \/ GeoPath
    \/ GeoReturn
    \/ ArbFactors
    \/ ArbPaths
    \/ ArbPath
    \/ ArbReturn

Spec == Init /\ [][Next]_vars

\* The calls whose S0 is a grid value, so that the geometric mean of the
\* one-price trajectory <<S0>> is S0 itself.
InitOnGrid == Init /\ RootFloor(input.S0, 1) = input.S0

SpecOnGrid == InitOnGrid /\ [][Next]_vars


\* ------------------------------------------------------------ the claims
\* The documented input domain (spec section 6): S0, K, r > 0, u > d > 0,
\* lambda, v_u, v_d >= 0, n >= 0.
ValidInput ==
    /\ Lt(Zero, input.S0) /\ Lt(Zero, input.K) /\ Lt(Zero, input.r)
    /\ Lt(input.d, input.u) /\ Lt(Zero, input.d)
    /\ Leq(Zero, input.lambda) /\ Leq(Zero, input.v_u) /\ Leq(Zero, input.v_d)
    /\ input.n >= 0

\* The sum over the paths from index i on of
\* path_prob * max(0, arithmetic_mean(trajectory) - K).
RECURSIVE ArithmeticPayoffSum(_, _, _)
ArithmeticPayoffSum(f, all_paths, i) ==
    IF i > Len(all_paths) THEN Zero
    ELSE LET prices == generate_price_path(input.S0, all_paths[i],
                           f.u_tilde, f.d_tilde)
             A == arithmetic_mean(prices).v
         IN  Add(Mul(path_prob(f.p, all_paths[i], input.n),
                     Max(Zero, Sub(A, input.K))),
                 ArithmeticPayoffSum(f, all_paths, i + 1))

\* V_A: the arithmetic Asian call price on the adjusted lattice of the call.
V_A ==
    Mul(Pow(input.r, -input.n),
        ArithmeticPayoffSum(arb.factors, arb.all_paths, 1))

\* C1: for valid inputs the returned record satisfies
\* lower_bound <= V_A <= upper_bound.  (Checked under SpecOnGrid, where a
\* violation cannot come from the rounding of the one-price mean.)
C1_BoundsEncloseArithmeticPrice ==
    (arb.pc = "done" /\ ValidInput) =>
        /\ Leq(arb.result.lower_bound, V_A)
        /\ Leq(V_A, arb.result.upper_bound)

\* The lower half of C1, which holds: the geometric price never exceeds the
\* arithmetic price.
LowerBoundHolds ==
    (arb.pc = "done" /\ ValidInput) => Leq(arb.result.lower_bound, V_A)

\* The upper half of C1 holds under SpecOnGrid on the lattices with
\* d_tilde <= 1 <= u_tilde, where every price of a trajectory lies between
\* S0*d_tilde^n and S0*u_tilde^n; the violations of C1 there all have
\* 1 outside [d_tilde, u_tilde].
UpperBoundHoldsAroundOne ==
    (arb.pc = "done" /\ ValidInput
       /\ Leq(arb.factors.d_tilde, One) /\ Leq(One, arb.factors.u_tilde)) =>
        Leq(V_A, arb.result.upper_bound)

\* C2: when both entry points return, lower_bound is the scalar returned by
\* price_geometric_asian, and V0_G is lower_bound (the same double; both
\* are NaN when p is NaN and n >= 1).
C2_LowerBoundIsGeometricPrice ==
    (geo.pc = "done" /\ arb.pc = "done") =>
        /\ arb.result.lower_bound = geo.result
        /\ arb.result.V0_G = arb.result.lower_bound

C2_Witness ==
    /\ geo.pc = "done" /\ arb.pc = "done"
    /\ input.n >= 2
    /\ Lt(Zero, geo.result)

\* The binary sequences of length n.
BinarySequences(n) == [1..n -> {0, 1}]

Enumerated(frame) == frame.pc \in {"loop", "done"}

ExactlyAllPaths(all_paths, n) ==
    /\ Len(all_paths) = IntPow(2, n)
    /\ \A k \in 1..Len(all_paths) : all_paths[k] \in BinarySequences(n)
    /\ \A j, k \in 1..Len(all_paths) : all_paths[j] = all_paths[k] => j = k
    /\ \A b \in BinarySequences(n) :
           \E k \in 1..Len(all_paths) : all_paths[k] = b

\* C3: generate_all_paths(n) returns exactly 2^n sequences of length n over
\* {0,1}, without duplicates and without omissions; one empty sequence
\* for n = 0.
C3_AllPathsExactlyOnce ==
    /\ Enumerated(geo) => ExactlyAllPaths(geo.all_paths, input.n)
    /\ Enumerated(arb) => ExactlyAllPaths(arb.all_paths, input.n)
    /\ (Enumerated(arb) /\ input.n = 0) => arb.all_paths = << <<>> >>

C3_Witness ==
    /\ Enumerated(arb) /\ Enumerated(geo)
    /\ input.n >= 2
    /\ Len(arb.all_paths) >= 4

\* The probability of section 4.1, derived from the arguments alone.
DerivedP ==
    LET u_tilde == Mul(input.u, Exp(Mul(input.lambda, input.v_u)))
        d_tilde == Mul(input.d, Exp(Neg(Mul(input.lambda, input.v_d))))
    IN  Div(Sub(input.r, d_tilde), Sub(u_tilde, d_tilde))

POutsideUnitInterval == Lt(DerivedP, Zero) \/ Lt(One, DerivedP)

\* C4: when the derived p is below 0 or above 1, both entry points stop
\* with the error at the factor derivation: no path is enumerated, no sum
\* is accumulated and no value is returned.
C4_InvalidProbabilityAborts ==
    POutsideUnitInterval =>
        /\ geo.pc \in {"call", "error"}
        /\ geo.all_paths = <<>> /\ geo.i = 0
        /\ geo.option_value = Zero /\ geo.result = Zero
        /\ arb.pc \in {"call", "error"}
        /\ arb.all_paths = <<>> /\ arb.i = 0
        /\ arb.lower_bound = Zero /\ arb.EQ_G = Zero
        /\ arb.result = NoResult

C4_Witness ==
    /\ Lt(One, DerivedP)
    /\ IsFinite(DerivedP)
    /\ geo.pc = "error" /\ arb.pc = "error"

\* max(0, S0 - K)
IntrinsicValue == IF Lt(input.K, input.S0) THEN Sub(input.S0, input.K) ELSE Zero

G0 == geometric_mean(<<input.S0>>).v

RECURSIVE PathProbSum(_, _, _)
PathProbSum(prob, all_paths, i) ==
    IF i > Len(all_paths) THEN Zero
    ELSE Add(path_prob(prob, all_paths[i], input.n),
             PathProbSum(prob, all_paths, i + 1))

InOpenUnitInterval(x) == Lt(Zero, x) /\ Lt(x, One)

\* C6: for p in (0,1) the path probabilities p^ups * (1-p)^(n-ups) of the
\* enumerated sequences sum to 1.
C6_PathProbabilitiesSumToOne ==
    /\ (Enumerated(geo) /\ InOpenUnitInterval(geo.factors.p)) =>
           PathProbSum(geo.factors.p, geo.all_paths, 1) = One
    /\ (Enumerated(arb) /\ InOpenUnitInterval(arb.factors.p)) =>
           PathProbSum(arb.factors.p, arb.all_paths, 1) = One

C6_Witness ==
    /\ arb.pc = "done" /\ geo.pc = "done"
    /\ input.n >= 2
    /\ InOpenUnitInterval(arb.factors.p)
    /\ arb.factors.p # Rat(1, 2)

Bits(k, n) == [j \in 1..n |-> (k \div IntPow(2, n - j)) % 2]

\* C8 as stated: the k-th emitted sequence (k = 0 .. 2^n - 1) is the n-bit
\* binary expansion of k, most significant step first, and the loops take
\* the paths in that order.
C8_EmittedInIndexOrder ==
    /\ Enumerated(geo) =>
           \A k \in 0..(Len(geo.all_paths) - 1) :
               geo.all_paths[k + 1] = Bits(k, input.n)
    /\ Enumerated(arb) =>
           \A k \in 0..(Len(arb.all_paths) - 1) :
               arb.all_paths[k + 1] = Bits(k, input.n)

\* C8 amended: up is tried before down at every step, so the k-th emitted
\* sequence is the n-bit binary expansion of 2^n - 1 - k, most significant
\* step first (all ups first, all downs last); the j-th iteration of each
\* pricing loop takes the j-th emitted sequence.
C8_EmittedInDescendingIndexOrder ==
    /\ Enumerated(geo) =>
           /\ \A k \in 0..(Len(geo.all_paths) - 1) :
                  geo.all_paths[k + 1] = Bits(IntPow(2, input.n) - 1 - k, input.n)
           /\ geo.i >= 2 =>
                  geo.path = Bits(IntPow(2, input.n) - (geo.i - 1), input.n)
    /\ Enumerated(arb) =>
           /\ \A k \in 0..(Len(arb.all_paths) - 1) :
                  arb.all_paths[k + 1] = Bits(IntPow(2, input.n) - 1 - k, input.n)
           /\ arb.i >= 2 =>
                  arb.path = Bits(IntPow(2, input.n) - (arb.i - 1), input.n)

C8_Witness ==
    /\ arb.pc = "loop" /\ input.n >= 2
    /\ arb.i = 3
    /\ arb.path = <<1, 0>>
    /\ arb.all_paths[1] = <<1, 1>>

\* The factor derivation of arithmetic_asian_bounds has run on u_tilde = d_tilde.
DegenerateLattice ==
    /\ arb.pc # "call"
    /\ arb.factors.u_tilde = arb.factors.d_tilde

\* C9 as stated: with u_tilde = d_tilde the derivation divides by zero and
\* reports no error; the result of the division is returned to the pricer.
C9_DegenerateLatticeUnreported ==
    DegenerateLattice => (arb.pc # "error" /\ ~IsFinite(arb.factors.p))

\* C9 amended: with u_tilde = d_tilde the division by zero gives +inf
\* (r > d_tilde), -inf (r < d_tilde) or NaN (r = d_tilde).  An infinity
\* fails the range check and the invalid-probability error is raised; only
\* NaN passes it (both comparisons are false), and then no error is raised
\* and NaN is returned to the pricer as p.
C9_DegenerateLatticeByCase ==
    DegenerateLattice =>
        /\ Lt(arb.factors.d_tilde, input.r) =>
               (arb.factors.p = PosInf /\ arb.pc = "error")
        /\ Lt(input.r, arb.factors.d_tilde) =>
               (arb.factors.p = NegInf /\ arb.pc = "error")
        /\ input.r = arb.factors.d_tilde =>
               (IsNaN(arb.factors.p) /\ arb.pc # "error")

C9_Witness ==
    /\ DegenerateLattice
    /\ input.r = arb.factors.d_tilde
    /\ arb.pc = "done" /\ input.n >= 1
    /\ IsNaN(arb.result.lower_bound)

\* The number of entries of m[1..i] equal to b.
CountOf(m, i, b) == Cardinality({j \in 1..i : m[j] = b})

PricePathCorrect(S0, m, u_tilde, d_tilde, prices) ==
    /\ Len(prices) = Len(m) + 1
    /\ prices[1] = S0
    /\ \A i \in 1..Len(m) :
           /\ prices[i + 1] =
                  Mul(Mul(S0, Pow(u_tilde, CountOf(m, i, 1))),
                      Pow(d_tilde, CountOf(m, i, 0)))
           /\ prices[i + 1] =
                  Mul(prices[i], IF m[i] = 1 THEN u_tilde ELSE d_tilde)
    /\ \A i \in 1..Len(prices) : Lt(Zero, prices[i])

\* C10: for S0, u_tilde, d_tilde > 0 the trajectory built from a move
\* sequence m of length n has n + 1 prices, starts at S0, has
\* price[i] = S0 * u_tilde^(ups in m[0..i-1]) * d_tilde^(downs in m[0..i-1]),
\* hence price[i] = price[i-1] * (u_tilde or d_tilde by m[i-1]), is
\* positive throughout, and m is left as it was.
C10_PricePathIsCumulativeProduct ==
    /\ (Enumerated(geo) /\ geo.i >= 2) =>
           /\ PricePathCorrect(input.S0, geo.path, geo.factors.u_tilde,
                               geo.factors.d_tilde, geo.prices)
           /\ geo.path = geo.all_paths[geo.i - 1]
           /\ Len(geo.path) = input.n
    /\ (Enumerated(arb) /\ arb.i >= 2) =>
           /\ PricePathCorrect(input.S0, arb.path, arb.factors.u_tilde,
                               arb.factors.d_tilde, arb.prices)
           /\ arb.path = arb.all_paths[arb.i - 1]
           /\ Len(arb.path) = input.n

C10_Witness ==
    /\ arb.pc = "loop" /\ input.n >= 2
    /\ arb.path = <<0, 1>>
    /\ Len(arb.prices) = 3
    /\ input.lambda = Zero
    /\ arb.prices[3] = Mul(Mul(input.S0, input.u), input.d)

=============================================================================
